---- MODULE Spec2Model ----
(***************************************************************************)
(* AirCharLogger.ino: IMU logger with a two-state acquisition machine, a   *)
(* bounded sample buffer made of six parallel channel arrays, and a        *)
(* line-oriented serial command protocol (S, D, X, blank line).            *)
(*                                                                         *)
(* Sensor values are integers in units of 1e-7, so that the six-decimal    *)
(* formatting done by Serial.print(value, 6) is a real rounding.           *)
(* A serial line is the sequence of characters received before the '\n'    *)
(* terminator; an output line is a sequence of printed tokens.             *)
(***************************************************************************)
EXTENDS Integers, Sequences, FiniteSets, TLC

\* Capacity of each channel array.  The firmware uses 100 * 30; the model
\* checks a scaled-down capacity.
BUFFER_SIZE == 3

\* Number of distinct sensor readings the environment can produce.
NumReadings == 2

\* Number of received lines that may wait in the serial receive buffer.
MaxPending == 1

\* Number of lines that may wait in the receive buffer when the host sends
\* several lines between two loop() calls.
BurstPending == 2

\* Sampling rate in Hz; the pacing delay is 1000 / SAMPLE_RATE milliseconds.
SAMPLE_RATE == 100

\* Digits after the decimal point requested by downloadData.
PRINT_DIGITS == 6

VARIABLES
    pc,           \* "setup", "poll", "acquire" or "halted": next step
    sampling,     \* volatile bool sampling
    sampleIndex,  \* volatile int sampleIndex
    accelX, accelY, accelZ, gyroX, gyroY, gyroZ,   \* the channel arrays
    rx,           \* serial receive buffer: lines not yet read, oldest first
    out,          \* lines printed by the latest step of the sketch
    cycles,       \* history: acquisition steps of the latest session that
                  \* ran in the sampling state with the sensor ready,
                  \* counted up to BUFFER_SIZE + 1
    fed,          \* history: which readings the sensor offered in those
                  \* steps, the first BUFFER_SIZE of them, oldest first
    polled,       \* history: between the command poll and the acquisition
                  \* block of a loop() call, <<state before the poll, kind
                  \* of line read>>; NotPolled otherwise
    slept,        \* milliseconds spent in delay() by the latest step of
                  \* the sketch
    gap           \* history: command polls of the open session since its
                  \* latest append of a sample (or since its start): 0, 1,
                  \* or 2 for two or more; 0 when no session is open

vars == <<pc, sampling, sampleIndex, accelX, accelY, accelZ,
          gyroX, gyroY, gyroZ, rx, out, cycles, fed, polled, slept, gap>>

Indices == 0 .. (BUFFER_SIZE - 1)

Min(a, b) == IF a < b THEN a ELSE b

(***************************************************************************)
(* Environment: sensor readings and serial lines.                          *)
(***************************************************************************)

\* Reading k of the sensor: <<ax, ay, az, gx, gy, gz>> in units of 1e-7.
Reading(k) ==
    << 10000000 * k + 14,      \* k.0000014
       0 - (25 + 10 * k),      \* -0.0000025 - k * 0.000001
       0 - 4,                  \* -0.0000004
       98100000 + 10 * k + 6,  \* 9.8100006 + k * 0.000001
       99999995,               \* 9.9999995
       k >>

\* Lines a host sends (characters before the '\n' terminator).  A read that
\* ends on the stream timeout returns the characters received so far, which
\* is the same as having received them as a line.
Lines ==
    { <<>>, <<"S">>, <<"s", "\r">>, <<"D">>, <<" ", "d">>, <<"X">>, <<"x">>,
      <<"\r">>, <<"A">> }

\* The lines above by kind, for the history variable: no character, only
\* white space, or some visible character.
LineKind(line) ==
    CASE line = <<>> -> "empty"
      [] line = <<"\r">> -> "white"
      [] OTHER -> "text"

NotPolled == <<FALSE, "none">>

\* Lines a host sends in a burst.
BurstLines == { <<>>, <<"S">>, <<"D">>, <<"A">> }

(***************************************************************************)
(* String helpers of the Arduino String class used by loop().              *)
(***************************************************************************)

isspace(c) == c \in {" ", "\t", "\n", "\r", "\f"}

RECURSIVE trimLeft(_)
trimLeft(s) ==
    IF s # <<>> /\ isspace(Head(s)) THEN trimLeft(Tail(s)) ELSE s

RECURSIVE trimRight(_)
trimRight(s) ==
    IF s # <<>> /\ isspace(s[Len(s)])
    THEN trimRight(SubSeq(s, 1, Len(s) - 1))
    ELSE s

\* Variant: the line is compared as received.
trim_none(s) == s

\* String::trim(): strips white space at both ends.
trim(s) == trimRight(trimLeft(s))

tolower(c) ==
    CASE c = "S" -> "s"
      [] c = "D" -> "d"
      [] c = "X" -> "x"
      [] c = "A" -> "a"
      [] OTHER -> c

\* Variant: the comparison is case-sensitive.
equalsIgnoreCase_caseSensitive(a, b) == a = b

\* String::equalsIgnoreCase(): same length and same characters up to case.
equalsIgnoreCase(a, b) ==
    /\ Len(a) = Len(b)
    /\ \A i \in 1 .. Len(a) : tolower(a[i]) = tolower(b[i])

\* String::equals()
equals(a, b) == a = b

(***************************************************************************)
(* Serial.print(float, digits)                                             *)
(***************************************************************************)

RECURSIVE Pow10(_)
Pow10(n) == IF n = 0 THEN 1 ELSE 10 * Pow10(n - 1)

\* The digits after the decimal point: each step scales the remainder by
\* ten and prints the integer part.  rem is in units of 10^(-digits).
RECURSIVE printFraction(_, _, _)
printFraction(rem, scale, digits) ==
    IF digits = 0 THEN ""
    ELSE LET toPrint == (rem * 10) \div scale
         IN  ToString(toPrint)
                \o printFraction((rem * 10) % scale, scale, digits - 1)

\* The value v (units of 1e-7) rounded to `digits` decimals, as a count of
\* units of 10^(-digits): half a unit is added to the magnitude, then the
\* digits are cut.
roundMagnitude(v, digits) ==
    LET mag  == IF v < 0 THEN 0 - v ELSE v
        unit == Pow10(7 - digits)
    IN  (mag + unit \div 2) \div unit

\* The text printed for v: sign, integer part, '.', fraction digits.
printFloat(v, digits) ==
    LET scale == Pow10(digits)
        m     == roundMagnitude(v, digits)
    IN  (IF v < 0 THEN "-" ELSE "")
           \o ToString(m \div scale) \o "."
           \o printFraction(m % scale, scale, digits)

(***************************************************************************)
(* The sketch's globals as one value, so that the steps of one loop() call *)
(* can be chained.                                                         *)
(***************************************************************************)

Globals ==
    [ sampling |-> sampling, sampleIndex |-> sampleIndex,
      accelX |-> accelX, accelY |-> accelY, accelZ |-> accelZ,
      gyroX |-> gyroX, gyroY |-> gyroY, gyroZ |-> gyroZ,
      out |-> <<>>, slept |-> 0 ]

\* Serial.println(text)
println(g, text) == [g EXCEPT !.out = Append(@, <<text>>)]

\* Variant: the start of a session keeps the write index.
startSampling_keepsIndex(g) ==
    println([g EXCEPT !.sampling = TRUE],
            "Starting sampling... Press Enter to stop.")

startSampling(g) ==
    println([g EXCEPT !.sampling = TRUE, !.sampleIndex = 0],
            "Starting sampling... Press Enter to stop.")

\* Variant: the stop also truncates the buffer.
stopSampling_resetsIndex(g) ==
    println([g EXCEPT !.sampling = FALSE, !.sampleIndex = 0],
            "Stopping sampling...")

\* Variant: the stop toggles the state, as the boot prompt's "Start/Stop"
\* suggests.
stopSampling_toggles(g) ==
    println([g EXCEPT !.sampling = ~g.sampling], "Stopping sampling...")

stopSampling(g) ==
    println([g EXCEPT !.sampling = FALSE], "Stopping sampling...")

\* Variant: the angular-rate fields are printed before the acceleration.
dataLine_gyroFirst(g, i) ==
    << printFloat(g.gyroX[i], PRINT_DIGITS), ";",
       printFloat(g.gyroY[i], PRINT_DIGITS), ";",
       printFloat(g.gyroZ[i], PRINT_DIGITS), ";",
       printFloat(g.accelX[i], PRINT_DIGITS), ";",
       printFloat(g.accelY[i], PRINT_DIGITS), ";",
       printFloat(g.accelZ[i], PRINT_DIGITS) >>

\* The line printed for sample i: six values, ';' between them.
dataLine(g, i) ==
    << printFloat(g.accelX[i], PRINT_DIGITS), ";",
       printFloat(g.accelY[i], PRINT_DIGITS), ";",
       printFloat(g.accelZ[i], PRINT_DIGITS), ";",
       printFloat(g.gyroX[i], PRINT_DIGITS), ";",
       printFloat(g.gyroY[i], PRINT_DIGITS), ";",
       printFloat(g.gyroZ[i], PRINT_DIGITS) >>

\* for (int i = from; i < sampleIndex; i++) print the line of sample i
downloadFrom(g, i) ==
    [g EXCEPT !.out = @ \o [j \in 1 .. (g.sampleIndex - i) |->
                               dataLine(g, i + j - 1)]]

\* Variant: the download prints the whole storage.
downloadData_dumpsArray(g) ==
    [g EXCEPT !.out = downloadFrom([g EXCEPT !.sampleIndex = BUFFER_SIZE],
                                   0).out]

\* Variant: the download empties the buffer once it is printed.
downloadData_consumes(g) ==
    [downloadFrom(g, 0) EXCEPT !.sampleIndex = 0]

downloadData(g) == downloadFrom(g, 0)

\* Dispatch of a trimmed command while not sampling.
idleCommand(g, command) ==
    IF equalsIgnoreCase(command, <<"S">>) THEN startSampling(g)
    ELSE IF equalsIgnoreCase(command, <<"D">>) THEN downloadData(g)
    ELSE IF equalsIgnoreCase(command, <<"X">>) THEN stopSampling(g)
    ELSE g

\* Variant: any line received while sampling stops the session.
samplingCommand_anyLineStops(g, command) == stopSampling(g)

\* Variant: a non-blank line received while sampling is dropped silently.
samplingCommand_silentReject(g, command) ==
    IF equals(command, <<>>) THEN stopSampling(g) ELSE g

\* Dispatch of a trimmed command while sampling.
samplingCommand(g, command) ==
    IF equals(command, <<>>) THEN stopSampling(g)
    ELSE println(g, "Invalid command. Press Enter to stop.")

\* Variant: the dispatch does not look at the acquisition state.
processCommand_ignoresState(g, line) == idleCommand(g, trim(line))

\* The line read by Serial.readStringUntil('\n'), trimmed and dispatched.
processCommand(g, line) ==
    LET command == trim(line)
    IN  IF ~g.sampling THEN idleCommand(g, command)
        ELSE samplingCommand(g, command)

\* Variant: the bound test admits an index equal to the capacity.
acquiring_offByOne(g) == g.sampling /\ g.sampleIndex <= BUFFER_SIZE

\* Variant: the acquisition block does not look at the state.
acquiring_ignoresState(g) == g.sampleIndex < BUFFER_SIZE

\* The guard of the acquisition block.
acquiring(g) == g.sampling /\ g.sampleIndex < BUFFER_SIZE

\* Variant: one ready predicate is enough.
sensorReady_either(accAvail, gyrAvail) == accAvail \/ gyrAvail

\* Both readiness predicates of the IMU.
sensorReady(accAvail, gyrAvail) == accAvail /\ gyrAvail

\* Variant: the sample that fills the buffer also ends the session.
storeSample_autoStop(g, r) ==
    [g EXCEPT !.accelX[g.sampleIndex] = r[1],
              !.accelY[g.sampleIndex] = r[2],
              !.accelZ[g.sampleIndex] = r[3],
              !.gyroX[g.sampleIndex] = r[4],
              !.gyroY[g.sampleIndex] = r[5],
              !.gyroZ[g.sampleIndex] = r[6],
              !.sampleIndex = @ + 1,
              !.sampling = (g.sampleIndex + 1 < BUFFER_SIZE)]

\* Stores reading r at the write index and advances the index.
storeSample(g, r) ==
    [g EXCEPT !.accelX[g.sampleIndex] = r[1],
              !.accelY[g.sampleIndex] = r[2],
              !.accelZ[g.sampleIndex] = r[3],
              !.gyroX[g.sampleIndex] = r[4],
              !.gyroY[g.sampleIndex] = r[5],
              !.gyroZ[g.sampleIndex] = r[6],
              !.sampleIndex = @ + 1]

\* delay(1000 / SAMPLE_RATE)
pace(g) == [g EXCEPT !.slept = @ + (1000 \div SAMPLE_RATE)]

\* Variant: a full buffer is treated as a ring, the write index wraps.
acquire_wraps(g, accAvail, gyrAvail, r) ==
    IF g.sampling
    THEN IF sensorReady(accAvail, gyrAvail)
         THEN pace(storeSample([g EXCEPT !.sampleIndex = @ % BUFFER_SIZE], r))
         ELSE println(println(g, "Sample failed"), ToString(g.sampleIndex))
    ELSE g

\* Variant: an acquisition block that finds the buffer full stops the session.
acquire_stopsWhenFull(g, accAvail, gyrAvail, r) ==
    IF g.sampling /\ g.sampleIndex < BUFFER_SIZE
    THEN IF sensorReady(accAvail, gyrAvail)
         THEN pace(storeSample(g, r))
         ELSE println(println(g, "Sample failed"), ToString(g.sampleIndex))
    ELSE IF g.sampling THEN stopSampling(g) ELSE g

\* Variant: the pacing delay follows every attempt, also a failed one.
acquire_pacesEveryAttempt(g, accAvail, gyrAvail, r) ==
    IF acquiring(g)
    THEN IF sensorReady(accAvail, gyrAvail)
         THEN pace(storeSample(g, r))
         ELSE pace(println(println(g, "Sample failed"),
                           ToString(g.sampleIndex)))
    ELSE g

\* The data acquisition block of loop().
acquire(g, accAvail, gyrAvail, r) ==
    IF acquiring(g)
    THEN IF sensorReady(accAvail, gyrAvail)
         THEN pace(storeSample(g, r))
         ELSE println(println(g, "Sample failed"), ToString(g.sampleIndex))
    ELSE g

(***************************************************************************)
(* Actions.  loop() runs in two steps, the command poll and the data       *)
(* acquisition block; the serial link can deliver a line at any time.      *)
(***************************************************************************)

Init ==
    /\ pc = "setup"
    /\ sampling = FALSE
    /\ sampleIndex = 0
    /\ accelX = [i \in Indices |-> 0]
    /\ accelY = [i \in Indices |-> 0]
    /\ accelZ = [i \in Indices |-> 0]
    /\ gyroX = [i \in Indices |-> 0]
    /\ gyroY = [i \in Indices |-> 0]
    /\ gyroZ = [i \in Indices |-> 0]
    /\ rx = <<>>
    /\ out = <<>>
    /\ cycles = 0
    /\ fed = <<>>
    /\ polled = NotPolled
    /\ slept = 0
    /\ gap = 0

\* Assigns the sketch's globals and the printed lines from g.
Assign(g) ==
    /\ sampling' = g.sampling
    /\ sampleIndex' = g.sampleIndex
    /\ accelX' = g.accelX
    /\ accelY' = g.accelY
    /\ accelZ' = g.accelZ
    /\ gyroX' = g.gyroX
    /\ gyroY' = g.gyroY
    /\ gyroZ' = g.gyroZ
    /\ out' = g.out
    /\ slept' = g.slept

\* Variant: a failed IMU.begin() is reported but the sketch goes on.
setup_ignoresFailure(imuOk) ==
    /\ pc = "setup"
    /\ \E g \in { IF imuOk
                  THEN println([Globals EXCEPT !.sampling = FALSE],
                               "Enter 'S' to Start/Stop sampling, 'D' to Download and 'X' to Exit program.")
                  ELSE println(Globals, "Failed to initialize IMU!") } :
          Assign(g)
    /\ pc' = "poll"
    /\ UNCHANGED <<rx, cycles, fed, polled, gap>>

\* setup(): IMU.begin() answers imuOk; on failure the sketch spins forever.
setup(imuOk) ==
    /\ pc = "setup"
    /\ \E g \in { IF imuOk
                  THEN println([Globals EXCEPT !.sampling = FALSE],
                               "Enter 'S' to Start/Stop sampling, 'D' to Download and 'X' to Exit program.")
                  ELSE println(Globals, "Failed to initialize IMU!") } :
          Assign(g)
    /\ pc' = IF imuOk THEN "poll" ELSE "halted"
    /\ UNCHANGED <<rx, cycles, fed, polled, gap>>

\* The host sends a line; it waits in the receive buffer.
SerialReceive(line) ==
    /\ Len(rx) < MaxPending
    /\ rx' = Append(rx, line)
    /\ UNCHANGED <<pc, sampling, sampleIndex, accelX, accelY, accelZ,
                   gyroX, gyroY, gyroZ, out, cycles, fed, polled, slept, gap>>

\* The host sends a line between two loop() calls, while others may still
\* wait in the receive buffer.
SerialBurst(line) ==
    /\ pc = "poll"
    /\ Len(rx) < BurstPending
    /\ rx' = Append(rx, line)
    /\ UNCHANGED <<pc, sampling, sampleIndex, accelX, accelY, accelZ,
                   gyroX, gyroY, gyroZ, out, cycles, fed, polled, slept, gap>>

\* Variant: the poll processes the oldest line and discards the other
\* pending ones.
pollCommand_dropsPending ==
    /\ pc = "poll"
    /\ \E g \in { IF Len(rx) > 0 THEN processCommand(Globals, Head(rx))
                  ELSE Globals } :
          /\ Assign(g)
          /\ cycles' = IF ~sampling /\ g.sampling THEN 0 ELSE cycles
          /\ fed' = IF ~sampling /\ g.sampling THEN <<>> ELSE fed
          /\ gap' = IF ~g.sampling THEN 0 ELSE IF gap = 0 THEN 1 ELSE 2
    /\ rx' = <<>>
    /\ polled' = <<sampling,
                   IF Len(rx) > 0 THEN LineKind(Head(rx)) ELSE "noline">>
    /\ pc' = "acquire"

\* Variant: the command poll is skipped while the acquisition block has a
\* sample to wait for.
pollCommand_notWhileAcquiring ==
    /\ pc = "poll"
    /\ \E g \in { IF Len(rx) > 0 /\ ~acquiring(Globals)
                  THEN processCommand(Globals, Head(rx))
                  ELSE Globals } :
          /\ Assign(g)
          /\ cycles' = IF ~sampling /\ g.sampling THEN 0 ELSE cycles
          /\ fed' = IF ~sampling /\ g.sampling THEN <<>> ELSE fed
          /\ gap' = IF ~g.sampling THEN 0 ELSE IF gap = 0 THEN 1 ELSE 2
    /\ rx' = IF Len(rx) > 0 /\ ~acquiring(Globals) THEN Tail(rx) ELSE rx
    /\ polled' = <<sampling,
                   IF Len(rx) > 0 /\ ~acquiring(Globals)
                   THEN LineKind(Head(rx)) ELSE "noline">>
    /\ pc' = "acquire"

\* First half of loop(): reads and processes at most one incoming line.
pollCommand ==
    /\ pc = "poll"
    /\ \E g \in { IF Len(rx) > 0 THEN processCommand(Globals, Head(rx))
                  ELSE Globals } :
          /\ Assign(g)
          /\ cycles' = IF ~sampling /\ g.sampling THEN 0 ELSE cycles
          /\ fed' = IF ~sampling /\ g.sampling THEN <<>> ELSE fed
          /\ gap' = IF ~g.sampling THEN 0 ELSE IF gap = 0 THEN 1 ELSE 2
    /\ rx' = IF Len(rx) > 0 THEN Tail(rx) ELSE rx
    /\ polled' = <<sampling,
                   IF Len(rx) > 0 THEN LineKind(Head(rx)) ELSE "noline">>
    /\ pc' = "acquire"

\* Second half of loop(): the data acquisition block.
acquisition(accAvail, gyrAvail, k) ==
    /\ pc = "acquire"
    /\ \E g \in { acquire(Globals, accAvail, gyrAvail, Reading(k)) } :
          /\ Assign(g)
          /\ gap' = IF g.sampleIndex = sampleIndex + 1 THEN 0 ELSE gap
    /\ cycles' = IF sampling /\ accAvail /\ gyrAvail
                 THEN Min(cycles + 1, BUFFER_SIZE + 1)
                 ELSE cycles
    /\ fed' = IF sampling /\ accAvail /\ gyrAvail
                 /\ Len(fed) < BUFFER_SIZE
              THEN Append(fed, k)
              ELSE fed
    /\ polled' = NotPolled
    /\ pc' = "poll"
    /\ UNCHANGED rx

Next ==
    \/ \E imuOk \in BOOLEAN : setup(imuOk)
    \/ \E line \in Lines : SerialReceive(line)
    \/ pollCommand
    \/ \E accAvail \in BOOLEAN, gyrAvail \in BOOLEAN, k \in 1 .. NumReadings :
          acquisition(accAvail, gyrAvail, k)

Spec == Init /\ [][Next]_vars

\* The sketch with a host that sends bursts of lines between loop() calls.
NextBurst ==
    \/ \E imuOk \in BOOLEAN : setup(imuOk)
    \/ \E line \in BurstLines : SerialBurst(line)
    \/ pollCommand
    \/ \E accAvail \in BOOLEAN, gyrAvail \in BOOLEAN, k \in 1 .. NumReadings :
          acquisition(accAvail, gyrAvail, k)

SpecBurst == Init /\ [][NextBurst]_vars

\* The lines of a host that starts sessions and types while they run: a
\* blank line, S, and a line that is no command.
LiveLines == { <<>>, <<"S">>, <<"A">> }

NextLive ==
    \/ \E imuOk \in BOOLEAN : setup(imuOk)
    \/ \E line \in LiveLines : SerialBurst(line)
    \/ pollCommand
    \/ \E accAvail \in BOOLEAN, gyrAvail \in BOOLEAN, k \in 1 .. NumReadings :
          acquisition(accAvail, gyrAvail, k)

\* The same sketch and host with the control loop scheduled fairly: the
\* runtime calls loop() again and again, so a command poll or an acquisition
\* block that can run does run.  Nothing makes the sensor ready or the host
\* send a line.
SpecLive ==
    /\ Init
    /\ [][NextLive]_vars
    /\ WF_vars(pollCommand)
    /\ WF_vars(\E accAvail \in BOOLEAN, gyrAvail \in BOOLEAN,
                  k \in 1 .. NumReadings :
                  acquisition(accAvail, gyrAvail, k))

TypeOK ==
    /\ pc \in {"setup", "poll", "acquire", "halted"}
    /\ sampling \in BOOLEAN
    /\ sampleIndex \in 0 .. BUFFER_SIZE
    /\ rx \in Seq(Lines \cup BurstLines)
    /\ Len(rx) <= IF MaxPending > BurstPending THEN MaxPending
                  ELSE BurstPending
    /\ cycles \in 0 .. (BUFFER_SIZE + 1)
    /\ fed \in Seq(1 .. NumReadings) /\ Len(fed) <= BUFFER_SIZE
    /\ polled \in BOOLEAN \X {"none", "noline", "empty", "white", "text"}
    /\ slept \in {0, 1000 \div SAMPLE_RATE}
    /\ gap \in 0 .. 2

(***************************************************************************)
(* Steps of the sketch, told apart by the program position.                *)
(***************************************************************************)

Channels == <<accelX, accelY, accelZ, gyroX, gyroY, gyroZ>>

\* The command poll of one loop() call.
Polls == pc = "poll" /\ pc' = "acquire"

\* The acquisition block of one loop() call.
Acquires == pc = "acquire" /\ pc' = "poll"

\* The command poll reads a line of the set L.
Consumes(L) == Polls /\ rx # <<>> /\ Head(rx) \in L

\* Raw lines by what they are after trimming.
BlankLines == { <<>>, <<"\r">> }
StartLines == { <<"S">>, <<"s", "\r">> }
DownloadLines == { <<"D">>, <<" ", "d">> }
ExitLines == { <<"X">>, <<"x">> }
OtherLines == { <<"A">> }

(***************************************************************************)
(* Properties                                                              *)
(***************************************************************************)

IndexInRange == sampleIndex \in 0 .. BUFFER_SIZE

\* A step that changes a channel array writes only the slot at the old
\* write index, which is below the capacity, and advances the index by one.
WriteInBounds ==
    Channels' # Channels =>
        /\ sampleIndex < BUFFER_SIZE
        /\ sampleIndex' = sampleIndex + 1
        /\ \A c \in 1 .. 6 :
              /\ DOMAIN Channels'[c] = Indices
              /\ \A i \in Indices \ {sampleIndex} :
                    Channels'[c][i] = Channels[c][i]

\* C1: the write index always satisfies 0 <= sampleIndex <= BUFFER_SIZE; no
\* write is made at an index >= BUFFER_SIZE and the acquisition block never
\* moves the index backwards (no wrap-around).
C1_IndexWithinBuffer ==
    /\ []IndexInRange
    /\ [][WriteInBounds /\ (Acquires => sampleIndex' >= sampleIndex)]_vars

\* The last slot of the arrays has been written and the index stands at
\* the capacity.
C1_Witness ==
    /\ sampleIndex = BUFFER_SIZE
    /\ accelX[BUFFER_SIZE - 1] # 0
    /\ gyroZ[BUFFER_SIZE - 1] # 0

\* C2: once sampleIndex equals BUFFER_SIZE no sample is appended: every step
\* leaves the stored samples unchanged, and leaves sampleIndex unchanged
\* unless it is the start of a new session.
C2_NoAppendWhenFull ==
    [][ sampleIndex = BUFFER_SIZE =>
          /\ Channels' = Channels
          /\ \/ sampleIndex' = sampleIndex
             \/ ~sampling /\ Consumes(StartLines) /\ sampleIndex' = 0 ]_vars

\* A ready-sensor acquisition step has run on the full buffer of a session
\* that is still open.
C2_Witness ==
    /\ pc = "poll"
    /\ sampling
    /\ sampleIndex = BUFFER_SIZE
    /\ cycles = BUFFER_SIZE + 1

\* C3: buffer-full quiescence.  While sampling, k ready-sensor cycles since
\* the S command have stored min(k, BUFFER_SIZE) samples; the state stays
\* Sampling on every step that is not the processing of a blank line, the
\* buffer-filling step included; a further acquisition step on the full
\* buffer adds nothing; a blank line then moves the state to Idle keeping
\* the buffer; a D processed in Idle emits as many lines as the buffer holds.
C3_BufferFullQuiescence ==
    /\ [](sampling => sampleIndex = Min(cycles, BUFFER_SIZE))
    /\ [][ /\ (sampling /\ ~Consumes(BlankLines)) => sampling'
           /\ (sampling /\ sampleIndex = BUFFER_SIZE /\ Acquires) =>
                 (sampleIndex' = BUFFER_SIZE /\ Channels' = Channels)
           /\ (sampling /\ Consumes(BlankLines)) =>
                 (~sampling' /\ sampleIndex' = sampleIndex
                             /\ Channels' = Channels)
           /\ (~sampling /\ Consumes(DownloadLines)) =>
                 (Len(out') = sampleIndex /\ ~sampling') ]_vars

\* The scenario's end: a session with more than BUFFER_SIZE ready cycles was
\* stopped and a D has just printed BUFFER_SIZE data lines.
C3_Witness ==
    /\ pc = "acquire"
    /\ ~sampling
    /\ cycles = BUFFER_SIZE + 1
    /\ Len(out) = BUFFER_SIZE
    /\ \A i \in 1 .. Len(out) : Len(out[i]) = 11

\* C4: the state is Idle or Sampling and starts Idle; a step from Idle to
\* Sampling is the processing of an S command; a step from Sampling to Idle
\* is the processing of a blank line or happens with the buffer full.
C4_StateMachine ==
    /\ [](sampling \in BOOLEAN /\ (pc = "setup" => ~sampling))
    /\ [][ /\ (~sampling /\ sampling') => Consumes(StartLines)
           /\ (sampling /\ ~sampling') =>
                 (Consumes(BlankLines) \/ sampleIndex' = BUFFER_SIZE) ]_vars

\* A session that stored samples without filling the buffer has just been
\* stopped.
C4_Witness ==
    /\ pc = "acquire"
    /\ ~sampling
    /\ sampleIndex \in 1 .. (BUFFER_SIZE - 1)
    /\ cycles = sampleIndex
    /\ out = << <<"Stopping sampling...">> >>

\* C5 as claimed: an acquisition block entered with the buffer full leaves
\* the state machine Idle, no command being needed.
C5_Original ==
    [][ (Acquires /\ sampleIndex = BUFFER_SIZE) => ~sampling' ]_vars

\* C5 (amended): a full buffer does not end the session.  A step that starts
\* in Sampling and ends with the buffer full stays in Sampling unless it is
\* the processing of a blank line.
C5_FullStaysSampling ==
    [][ (sampling /\ sampleIndex' = BUFFER_SIZE /\ ~Consumes(BlankLines))
           => sampling' ]_vars

\* The buffer is full, a non-blank line has just been rejected, and the
\* session is still open.
C5_Witness ==
    /\ pc = "acquire"
    /\ sampling
    /\ sampleIndex = BUFFER_SIZE
    /\ out = << <<"Invalid command. Press Enter to stop.">> >>

\* C6: sampleIndex decreases only in the processing of an S command in
\* Idle, which sets it to exactly 0 and opens a session; no other step
\* (acquisition, stop, download, ignored or rejected line) reduces it.
C6_LengthMonotone ==
    [][ /\ sampleIndex' < sampleIndex =>
              (~sampling /\ Consumes(StartLines))
        /\ (~sampling /\ Consumes(StartLines)) =>
              (sampleIndex' = 0 /\ sampling') ]_vars

\* An S command has just reset the index while samples of the previous
\* session are still in the arrays.
C6_Witness ==
    /\ pc = "acquire"
    /\ sampling
    /\ sampleIndex = 0
    /\ accelX[BUFFER_SIZE - 1] # 0

(***************************************************************************)
(* The expected text of the sensor's readings, written out by hand.        *)
(***************************************************************************)

\* Reading k rounded to six decimals, in units of 1e-6.
ReadingMicro(k) ==
    << 1000000 * k + 1, 0 - (3 + k), 0, 9810001 + k, 10000000, 0 >>

\* The six-decimal text of reading k.  A negative value that rounds to zero
\* keeps its sign.
ReadingText(k) ==
    << ToString(k) \o ".000001",
       "-0.00000" \o ToString(3 + k),
       "-0.000000",
       "9.81000" \o ToString(1 + k),
       "10.000000",
       "0.000000" >>

\* The expected text of a stored value: a channel of a reading, or the 0.0
\* the arrays hold at start.
TextOf(v) ==
    IF v = 0 THEN "0.000000"
    ELSE LET kc == CHOOSE p \in (1 .. NumReadings) \X (1 .. 6) :
                       Reading(p[1])[p[2]] = v
         IN  ReadingText(kc[1])[kc[2]]

\* Six field texts as one output line.
JoinFields(f) ==
    << f[1], ";", f[2], ";", f[3], ";", f[4], ";", f[5], ";", f[6] >>

Abs(x) == IF x < 0 THEN 0 - x ELSE x

\* C7: a D processed in Idle with buffer length n prints exactly n lines;
\* line i holds the texts of accelX[i], accelY[i], accelZ[i], gyroX[i],
\* gyroY[i], gyroZ[i] in that order with ';' between them, for i = 0..n-1
\* in index order; nothing is printed when n = 0.
C7_DownloadLines ==
    [][ (~sampling /\ Consumes(DownloadLines)) =>
          /\ Len(out') = sampleIndex
          /\ \A i \in 1 .. sampleIndex :
                out'[i] = JoinFields(<< TextOf(accelX[i - 1]),
                                        TextOf(accelY[i - 1]),
                                        TextOf(accelZ[i - 1]),
                                        TextOf(gyroX[i - 1]),
                                        TextOf(gyroY[i - 1]),
                                        TextOf(gyroZ[i - 1]) >>) ]_vars

\* A D has just printed a buffer of at least two different samples.
C7_Witness ==
    /\ pc = "acquire"
    /\ ~sampling
    /\ sampleIndex >= 2
    /\ Len(out) = sampleIndex
    /\ Len(out[1]) = 11
    /\ out[1] # out[2]

\* C8: round trip.  After S in Idle, n < BUFFER_SIZE ready readings and a
\* blank line, a D prints exactly n lines, line i being the six-decimal text
\* of the i-th reading fed in the session (each text within 1e-6 of the
\* value fed): none lost, duplicated or reordered.
C8_RoundTrip ==
    [][ (~sampling /\ Consumes(DownloadLines) /\ Len(fed) < BUFFER_SIZE) =>
          /\ Len(out') = Len(fed)
          /\ \A i \in 1 .. Len(fed) :
                /\ out'[i] = JoinFields(ReadingText(fed[i]))
                /\ \A c \in 1 .. 6 :
                      Abs(10 * ReadingMicro(fed[i])[c] - Reading(fed[i])[c])
                         <= 10 ]_vars

\* A D has just printed a stopped session of two different readings.
C8_Witness ==
    /\ pc = "acquire"
    /\ ~sampling
    /\ Len(fed) = 2
    /\ fed[1] # fed[2]
    /\ Len(out) = 2
    /\ out[1] = JoinFields(ReadingText(fed[1]))

\* C9: a non-blank line (D, S, X or anything else) read while Sampling is
\* rejected: only the diagnostic is printed, the state stays Sampling and
\* the buffer length and contents are unchanged.
C9_RejectedWhileSampling ==
    [][ (sampling /\ Consumes(Lines \ BlankLines)) =>
          /\ out' = << <<"Invalid command. Press Enter to stop.">> >>
          /\ sampling'
          /\ sampleIndex' = sampleIndex
          /\ Channels' = Channels ]_vars

\* A line has just been rejected in a session that holds samples and is
\* not full.
C9_Witness ==
    /\ pc = "acquire"
    /\ sampling
    /\ sampleIndex \in 1 .. (BUFFER_SIZE - 1)
    /\ out = << <<"Invalid command. Press Enter to stop.">> >>

\* C10: in Idle the trimmed line is matched without regard to case: S/s
\* starts a session, D/d prints the current buffer, X/x stops; any other
\* line, the empty one included, changes nothing and prints nothing.
C10_IdleDispatch ==
    [][ /\ (~sampling /\ Consumes(StartLines)) =>
              /\ sampling' /\ sampleIndex' = 0 /\ Channels' = Channels
              /\ out' = << <<"Starting sampling... Press Enter to stop.">> >>
        /\ (~sampling /\ Consumes(DownloadLines)) =>
              /\ ~sampling' /\ sampleIndex' = sampleIndex
              /\ Channels' = Channels
              /\ Len(out') = sampleIndex
              /\ \A i \in 1 .. Len(out') : Len(out'[i]) = 11
        /\ (~sampling /\ Consumes(ExitLines)) =>
              /\ ~sampling' /\ sampleIndex' = sampleIndex
              /\ Channels' = Channels
              /\ out' = << <<"Stopping sampling...">> >>
        /\ (~sampling /\ Consumes(Lines \ (StartLines \cup DownloadLines
                                              \cup ExitLines))) =>
              /\ ~sampling' /\ sampleIndex' = sampleIndex
              /\ Channels' = Channels
              /\ out' = <<>> ]_vars

\* The first session has just been started from Idle.
C10_Witness ==
    /\ pc = "acquire"
    /\ sampling
    /\ sampleIndex = 0
    /\ cycles = 0
    /\ accelX[0] = 0
    /\ out = << <<"Starting sampling... Press Enter to stop.">> >>

\* The step leaves the acquisition state and the buffer as they are.
KeepsState ==
    /\ sampling' = sampling
    /\ sampleIndex' = sampleIndex
    /\ Channels' = Channels

\* C11 as claimed: an unrecognized command in Idle and a non-blank line in
\* Sampling are both answered with a diagnostic and change nothing.
C11_Original ==
    [][ (\/ ~sampling /\ Consumes(OtherLines)
         \/ sampling /\ Consumes(Lines \ BlankLines)) =>
           (out' # <<>> /\ KeepsState) ]_vars

\* C11 (amended): neither protocol violation changes the state, the buffer
\* length or the stored samples; a non-blank line in Sampling is answered
\* with the diagnostic, a line other than S, D, X in Idle with nothing.
C11_ViolationsKeepState ==
    [][ /\ (sampling /\ Consumes(Lines \ BlankLines)) =>
              /\ KeepsState
              /\ out' = << <<"Invalid command. Press Enter to stop.">> >>
        /\ (~sampling /\ Consumes(Lines \ (StartLines \cup DownloadLines
                                              \cup ExitLines))) =>
              /\ KeepsState
              /\ out' = <<>> ]_vars

\* A line with visible characters has just been read in Idle, with samples
\* in the buffer, and nothing was printed: the line was not S, D or X.
C11_Witness ==
    /\ pc = "acquire"
    /\ polled = <<FALSE, "text">>
    /\ ~sampling
    /\ sampleIndex > 0
    /\ out = <<>>

\* The lines a D command would print in the current state.
DownloadOutput == downloadData(Globals).out

\* The lines a D command would print in the state the step leads to.
DownloadOutputNext ==
    downloadData([ sampling |-> sampling', sampleIndex |-> sampleIndex',
                   accelX |-> accelX', accelY |-> accelY',
                   accelZ |-> accelZ', gyroX |-> gyroX', gyroY |-> gyroY',
                   gyroZ |-> gyroZ', out |-> <<>> ]).out

\* C12: an X processed in Idle leaves the state Idle and the buffer length
\* and samples unchanged, so a D prints the same lines after it as before.
C12_ExitInIdle ==
    [][ (~sampling /\ Consumes(ExitLines)) =>
          /\ ~sampling'
          /\ sampleIndex' = sampleIndex
          /\ Channels' = Channels
          /\ DownloadOutputNext = DownloadOutput ]_vars

\* An X has just been processed in Idle with samples in the buffer.
C12_Witness ==
    /\ pc = "acquire"
    /\ polled = <<FALSE, "text">>
    /\ ~sampling
    /\ sampleIndex > 0
    /\ out = << <<"Stopping sampling...">> >>

\* The message of a failed sensor initialization is the last thing printed.
InitFailed == out = << <<"Failed to initialize IMU!">> >>

\* C13: a failed sensor initialization halts the sketch for good: the step
\* that prints the failure leads to the halted position, which is never
\* left; from then on no line is read, the state is never Sampling, no
\* sample is stored, and nothing more is printed, whatever lines arrive.
C13_InitFailureHalts ==
    /\ []( (InitFailed \/ pc = "halted") =>
              /\ InitFailed /\ pc = "halted"
              /\ ~sampling /\ sampleIndex = 0
              /\ \A c \in 1 .. 6 : \A i \in Indices : Channels[c][i] = 0 )
    /\ [][ pc = "halted" =>
              /\ pc' = "halted"
              /\ KeepsState
              /\ out' = out
              /\ Len(rx') >= Len(rx)
              /\ SubSeq(rx', 1, Len(rx)) = rx ]_vars

\* The sketch is halted and a line has arrived since.
C13_Witness ==
    /\ pc = "halted"
    /\ rx # <<>>
    /\ Head(rx) \in StartLines

\* What the command poll prints for a line read in the current state.
PollReply(line) ==
    IF sampling
    THEN IF line \in BlankLines
         THEN << <<"Stopping sampling...">> >>
         ELSE << <<"Invalid command. Press Enter to stop.">> >>
    ELSE IF line \in StartLines
         THEN << <<"Starting sampling... Press Enter to stop.">> >>
         ELSE IF line \in DownloadLines THEN DownloadOutput
         ELSE IF line \in ExitLines THEN << <<"Stopping sampling...">> >>
         ELSE <<>>

\* C14: a loop() call reads at most one line: the command poll removes the
\* oldest pending line only, answers that line, and leaves the other pending
\* lines in their order; no other step removes or reorders a pending line.
C14_OneLinePerIterationFifo ==
    [][ /\ Polls =>
              IF rx = <<>>
              THEN rx' = <<>> /\ out' = <<>> /\ KeepsState
              ELSE rx' = Tail(rx) /\ out' = PollReply(Head(rx))
        /\ ~Polls =>
              (Len(rx') >= Len(rx) /\ SubSeq(rx', 1, Len(rx)) = rx) ]_vars

\* Of the lines that were pending, the S has just been processed and the
\* blank line sent after it still waits.
C14_Witness ==
    /\ pc = "acquire"
    /\ sampling
    /\ out = << <<"Starting sampling... Press Enter to stop.">> >>
    /\ Len(rx) = BurstPending - 1
    /\ rx[1] \in BlankLines

\* C15: an acquisition block that runs in Sampling with room in the buffer
\* appends exactly one sample when both readiness predicates hold (the six
\* channels of the reading are written at the old index, which advances by
\* one), and otherwise reads nothing and leaves index, state and samples
\* unchanged, the session staying open for the next attempt.  No step
\* advances the index by more than one.
C15_OneAttemptPerIteration ==
    [][ /\ (Acquires /\ sampling /\ sampleIndex < BUFFER_SIZE) =>
              IF cycles' = cycles + 1
              THEN /\ sampleIndex' = sampleIndex + 1
                   /\ sampling'
                   /\ \A c \in 1 .. 6 :
                         /\ Channels'[c][sampleIndex]
                               = Reading(fed'[Len(fed')])[c]
                         /\ \A i \in Indices \ {sampleIndex} :
                               Channels'[c][i] = Channels[c][i]
              ELSE /\ KeepsState
                   /\ out' = << <<"Sample failed">>,
                                <<ToString(sampleIndex)>> >>
        /\ sampleIndex' <= sampleIndex + 1 ]_vars

\* After one sample was appended, an attempt has just found the sensor not
\* ready.
C15_Witness ==
    /\ pc = "poll"
    /\ sampling
    /\ sampleIndex = 1
    /\ cycles = 1
    /\ out = << <<"Sample failed">>, <<"1">> >>

\* C16: nothing is appended while Idle.  A blank line processed in Sampling
\* leaves the state Idle before the acquisition block of the same loop()
\* call; every acquisition block that runs in Idle changes nothing, and in
\* Idle the index and the samples stay as they are until an S is processed.
C16_NoAppendWhileIdle ==
    [][ /\ (sampling /\ Consumes(BlankLines)) => (~sampling' /\ pc' = "acquire")
        /\ (~sampling /\ Acquires) => (KeepsState /\ out' = <<>>)
        /\ ~sampling =>
              /\ Channels' = Channels
              /\ sampleIndex' = sampleIndex
                    \/ (Consumes(StartLines) /\ sampleIndex' = 0) ]_vars

\* A session with room left was stopped by a blank line and the acquisition
\* block of that loop() call has run.
C16_Witness ==
    /\ pc = "poll"
    /\ ~sampling
    /\ out = <<>>
    /\ sampleIndex \in 1 .. (BUFFER_SIZE - 1)
    /\ cycles = sampleIndex

\* The step appends a sample.
Appends == Acquires /\ sampleIndex' = sampleIndex + 1

\* The pacing delay in milliseconds.
PacingDelay == 1000 \div SAMPLE_RATE

\* The pacing delay is made once by every acquisition block that appends a
\* sample, and by no other step of the sketch; the block is followed by the
\* command poll of the next loop() call.
DelayOnlyAfterAppend ==
    /\ Appends => (slept' = PacingDelay /\ pc' = "poll")
    /\ (Acquires /\ ~Appends) => slept' = 0
    /\ (Polls \/ pc = "setup") => slept' = 0

\* C17 as claimed: the delay follows every append and nothing else, and an
\* append that follows another append of the session comes after exactly one
\* command poll.
C17_Original ==
    [][ /\ DelayOnlyAfterAppend
        /\ (Appends /\ sampleIndex > 0) => gap = 1 ]_vars

\* C17 (amended): the delay follows every append and nothing else; the
\* command input is polled once per loop() call, so at least once before
\* every append, and more than once between two appends only when the calls
\* in between appended nothing.
C17_PacingAndPolling ==
    [][ /\ DelayOnlyAfterAppend
        /\ Appends => gap >= 1
        /\ (Acquires /\ ~Appends /\ sampling') => gap' = gap
        /\ (Polls /\ sampling') => gap' = (IF gap = 0 THEN 1 ELSE 2)
        /\ Appends => gap' = 0 ]_vars

\* A second sample of a session has just been appended and paced.
C17_Witness ==
    /\ pc = "poll"
    /\ sampling
    /\ sampleIndex = 2
    /\ slept = PacingDelay
    /\ gap = 0

\* The lines made of white space only, and those with a visible character.
WhiteLines ==
    { l \in Lines : l # <<>> /\ \A i \in 1 .. Len(l) : l[i] \in {" ", "\r"} }
VisibleLines ==
    { l \in Lines : \E i \in 1 .. Len(l) : l[i] \notin {" ", "\r"} }

\* C18: while Sampling the line is trimmed before the blank-line test: a
\* line of white space only (a lone carriage return) stops the session like
\* an empty line, and a line with a visible character, with or without
\* white space around it, is rejected.
C18_TrimBeforeBlankTest ==
    [][ /\ (sampling /\ Consumes(WhiteLines \cup {<<>>})) =>
              /\ ~sampling'
              /\ sampleIndex' = sampleIndex /\ Channels' = Channels
              /\ out' = << <<"Stopping sampling...">> >>
        /\ (sampling /\ Consumes(VisibleLines)) =>
              /\ KeepsState
              /\ out' = << <<"Invalid command. Press Enter to stop.">> >> ]_vars

\* A line holding only a carriage return has just stopped a session.
C18_Witness ==
    /\ pc = "acquire"
    /\ polled = <<TRUE, "white">>
    /\ ~sampling
    /\ out = << <<"Stopping sampling...">> >>

\* The sample stored at index i, now and after the step.
SampleAt(i) ==
    <<accelX[i], accelY[i], accelZ[i], gyroX[i], gyroY[i], gyroZ[i]>>
SampleAtNext(i) ==
    <<accelX'[i], accelY'[i], accelZ'[i], gyroX'[i], gyroY'[i], gyroZ'[i]>>

\* The first sampleIndex slots hold, in order, the readings stored since the
\* latest S command.
HoldsSessionSamples ==
    /\ sampleIndex <= Len(fed)
    /\ \A i \in 0 .. (sampleIndex - 1) : SampleAt(i) = Reading(fed[i + 1])

\* C19: a download never exposes data of an earlier session.  Every index
\* below sampleIndex holds a sample written after the latest S command; a
\* stored sample is not overwritten while the buffer still covers it; a D
\* in Idle prints the samples of the latest session only, whatever an
\* earlier session left at indices >= sampleIndex.
C19_NoStaleData ==
    /\ []HoldsSessionSamples
    /\ [][ /\ \A i \in 0 .. (sampleIndex - 1) :
                 sampleIndex' > i => SampleAtNext(i) = SampleAt(i)
           /\ (~sampling /\ Consumes(DownloadLines)) =>
                 /\ Len(out') = sampleIndex
                 /\ \A i \in 1 .. sampleIndex :
                       out'[i] = JoinFields(ReadingText(fed[i])) ]_vars

\* A D has just printed the one sample of the latest session while the slot
\* after it still holds a sample of an earlier, longer session.
C19_Witness ==
    /\ pc = "acquire"
    /\ polled = <<FALSE, "text">>
    /\ ~sampling
    /\ sampleIndex = 1
    /\ accelX[1] # 0
    /\ Len(out) = 1
    /\ Len(out[1]) = 11

\* C20: download is read-only and repeatable.  A D processed in Idle leaves
\* the state, sampleIndex and every stored sample unchanged, prints the
\* buffer and would print the same lines again; no step that stays in Idle
\* changes the buffer, so two D commands with no S between them print the
\* same lines.
C20_DownloadReadOnly ==
    [][ /\ (~sampling /\ Consumes(DownloadLines)) =>
              /\ out' = DownloadOutput
              /\ DownloadOutputNext = out'
        /\ (~sampling /\ ~sampling') => KeepsState ]_vars

\* A D has just printed a full buffer and the next D already waits.
C20_Witness ==
    /\ pc = "acquire"
    /\ polled = <<FALSE, "text">>
    /\ ~sampling
    /\ sampleIndex = BUFFER_SIZE
    /\ out = DownloadOutput
    /\ rx = << <<"D">> >>

\* A blank line waits in the receive buffer, behind any number of lines.
BlankLinePending == \E i \in 1 .. Len(rx) : rx[i] \in BlankLines

\* C21: under fair scheduling of the control loop, a blank line received
\* while the state is Sampling eventually brings the state to Idle, once the
\* lines queued ahead of it are consumed, whether or not the sensor is ever
\* ready and whether or not the buffer is full.
C21_BlankLineEventuallyStops == (sampling /\ BlankLinePending) ~> ~sampling

\* While Sampling with the buffer full, a blank line has been received
\* behind a line that is still to be consumed.
C21_Witness ==
    /\ pc = "poll"
    /\ sampling
    /\ sampleIndex = BUFFER_SIZE
    /\ rx = << <<"A">>, <<>> >>

====
